---- MODULE Spec2Model ----
(***************************************************************************)
(* Model of the vuex-orm Model class (src/src/Model.ts) and its field      *)
(* descriptors (src/unnamed/part_000, the Attributes module).              *)
(*                                                                         *)
(* JavaScript values are encoded as records [k, v] so that values of       *)
(* different JavaScript types can be compared: k is the type tag.          *)
(***************************************************************************)
EXTENDS Integers, Sequences, FiniteSets

VARIABLES store, call

vars == <<store, call>>

\* Bounds of the model: the largest primary key and the longest list of
\* embedded records the payloads contain.
MaxId == 2
MaxLen == 2

(***************************************************************************)
(* JavaScript values                                                       *)
(***************************************************************************)
Null == [k |-> "null", v |-> 0]
Undef == [k |-> "undef", v |-> 0]
\* A thrown exception (TypeError, registry failure), propagated to the caller.
Err == [k |-> "err", v |-> 0]
Num(n) == [k |-> "num", v |-> n]
Str(s) == [k |-> "str", v |-> s]
Bool(b) == [k |-> "bool", v |-> b]
Arr(s) == [k |-> "arr", v |-> s]
Obj(f) == [k |-> "obj", v |-> f]
\* A live Model instance of class c with own properties f.
Inst(c, f) == [k |-> "inst", v |-> f, c |-> c]

EmptyMap == [x \in {} |-> Null]

\* The element of a one-element set.  The({F(r) : r \in {e}}) is F(e) with e
\* evaluated once.
The(S) == CHOOSE x \in S : TRUE

\* The map f with key set to value: f[key] = value on an object.
Put(f, key, value) == [x \in DOMAIN f \cup {key} |-> IF x = key THEN value ELSE f[x]]

\* { ...g, ...f }: the properties of f over those of g.
Spread(f, g) == [x \in DOMAIN f \cup DOMAIN g |-> IF x \in DOMAIN f THEN f[x] ELSE g[x]]

\* !x is false
Truthy(x) ==
  CASE x.k = "null" -> FALSE
    [] x.k = "undef" -> FALSE
    [] x.k = "num" -> x.v # 0
    [] x.k = "str" -> x.v # ""
    [] x.k = "bool" -> x.v
    [] OTHER -> TRUE

\* _.isNumber
IsNumber(x) == x.k = "num"

\* The own enumerable string-keyed properties _.forEach(x, ...) visits with a
\* key that can name a field (indices of arrays and strings never do).
OwnProps(x) == IF x.k \in {"obj", "inst"} THEN x.v ELSE EmptyMap

\* x[key] for a property name; undefined when absent.
Get(x, key) == IF key \in DOMAIN OwnProps(x) THEN OwnProps(x)[key] ELSE Undef

\* x[0]: the first element of an array, the property "0" of an object.
\* Reading it from undefined throws (null never gets here).
Index0(x) ==
  CASE x.k = "undef" -> Err
    [] x.k = "null" -> Err
    [] x.k = "arr" -> IF Len(x.v) > 0 THEN x.v[1] ELSE Undef
    [] x.k = "str" -> IF x.v # "" THEN Str("c") ELSE Undef
    [] OTHER -> Get(x, "0")

(***************************************************************************)
(* Field descriptors: Attributes (src/unnamed/part_000)                    *)
(***************************************************************************)
\* A relation target: a static class reference or a string name.
Static(name) == [isString |-> FALSE, name |-> name]
Named(name) == [isString |-> TRUE, name |-> name]
NoModel == Static("")
NoMutator == "none"

attr(value, mutator) ==
  [type |-> "Attr", model |-> NoModel, foreignKey |-> "", otherKey |-> "",
   value |-> value, polymorphic |-> FALSE, mutator |-> mutator]

hasOne(model, foreignKey, polymorphic) ==
  [type |-> "HasOne", model |-> model, foreignKey |-> foreignKey, otherKey |-> "",
   value |-> Null, polymorphic |-> polymorphic, mutator |-> NoMutator]

belongsTo(model, foreignKey, polymorphic) ==
  [type |-> "BelongsTo", model |-> model, foreignKey |-> foreignKey, otherKey |-> "",
   value |-> Null, polymorphic |-> polymorphic, mutator |-> NoMutator]

hasMany(model, foreignKey, polymorphic) ==
  [type |-> "HasMany", model |-> model, foreignKey |-> foreignKey, otherKey |-> "",
   value |-> Null, polymorphic |-> polymorphic, mutator |-> NoMutator]

hasManyBy(model, foreignKey, otherKey, polymorphic) ==
  [type |-> "HasManyBy", model |-> model, foreignKey |-> foreignKey, otherKey |-> otherKey,
   value |-> Null, polymorphic |-> polymorphic, mutator |-> NoMutator]

isRelation(a) == a.type # "Attr"

(***************************************************************************)
(* Mutators: value -> value functions the entity definitions name.         *)
(***************************************************************************)
Upper(s) == CASE s = "ada" -> "ADA" [] s = "hi" -> "HI" [] OTHER -> s

\* mutator(value), for a mutator that is set
Apply(mutator, value) ==
  CASE mutator = "inc" -> IF value.k = "num" THEN Num(value.v + 1) ELSE value
    [] mutator = "upper" -> IF value.k = "str" THEN Str(Upper(value.v)) ELSE value
    [] OTHER -> value

Idempotent(mutator) == mutator \in {NoMutator, "upper"}
Invertible(mutator) == mutator \in {NoMutator, "inc"}

(***************************************************************************)
(* Entity definitions: the classes extending Model, each with its entity   *)
(* name, its fields() in declaration order and its mutators().             *)
(***************************************************************************)
Fields(order, at) == [order |-> order, at |-> at]

UserFields ==
  Fields(<<"id", "name", "posts", "profile">>,
         [id |-> attr(Null, NoMutator),
          name |-> attr(Str(""), NoMutator),
          posts |-> hasMany(Named("Post"), "userId", FALSE),
          profile |-> hasOne(Static("Profile"), "userId", FALSE)])

PostFields ==
  Fields(<<"id", "title", "userId", "author", "tags">>,
         [id |-> attr(Null, NoMutator),
          title |-> attr(Str(""), "upper"),
          userId |-> attr(Null, NoMutator),
          author |-> belongsTo(Static("User"), "userId", FALSE),
          tags |-> hasManyBy(Named("Tag"), "tagIds", "id", FALSE)])

ProfileFields ==
  Fields(<<"id", "age">>,
         [id |-> attr(Null, NoMutator),
          age |-> attr(Num(0), "inc")])

TagFields ==
  Fields(<<"id", "name">>,
         [id |-> attr(Null, NoMutator),
          name |-> attr(Str(""), NoMutator)])

CommentFields ==
  Fields(<<"id", "commentable", "images", "ghost", "draft">>,
         [id |-> attr(Null, NoMutator),
          commentable |-> belongsTo(Named("Ghost"), "commentableId", TRUE),
          images |-> hasMany(Static("User"), "imageableId", TRUE),
          ghost |-> hasOne(Named("Ghost"), "commentId", FALSE),
          draft |-> hasOne(Static("Draft"), "commentId", FALSE)])

\* An entity that declares the discriminator as a field of its own.
ImageFields ==
  Fields(<<"id", "type">>,
         [id |-> attr(Null, NoMutator),
          type |-> attr(Str("Image"), NoMutator)])

DraftFields ==
  Fields(<<"id">>, [id |-> attr(Null, NoMutator)])

\* Every Model subclass; Draft is a class no connection registers.
Classes == {"User", "Post", "Profile", "Tag", "Comment", "Image", "Draft"}
Registered == Classes \ {"Draft"}

\* The classes whose fields() hands out one stored field map on every call;
\* the others build their descriptors anew on every call.
Stored == {"Tag"}

Declared(E) ==
  CASE E = "User" -> UserFields
    [] E = "Post" -> PostFields
    [] E = "Profile" -> ProfileFields
    [] E = "Tag" -> TagFields
    [] E = "Comment" -> CommentFields
    [] E = "Image" -> ImageFields
    [] OTHER -> DraftFields

\* static mutators (): the entity-level mutators, by field name
mutators(E) ==
  IF E = "User" THEN [name |-> "upper"] ELSE [x \in {} |-> NoMutator]

\* static primaryKey
primaryKey == "id"

Range(s) == {s[i] : i \in DOMAIN s}

\* The field map as first built (the state of a stored map before any call).
DeclaredValues(E) == [key \in Range(Declared(E).order) |-> Declared(E).at[key].value]

\* static fields () / $fields (): the field map the class returns now.  st
\* holds the value of every descriptor of the stored maps.
fields(st, E) ==
  IF E \in Stored
  THEN Fields(Declared(E).order,
              [key \in Range(Declared(E).order) |->
                 [Declared(E).at[key] EXCEPT !.value = st[E][key]]])
  ELSE Declared(E)

(***************************************************************************)
(* Relation resolution                                                     *)
(***************************************************************************)
\* No class: the lookup failed and the call throws.
NoClass == ""

\* static relation (name): the connection's model registered under name.
\* An unknown name (or a name that is no string) fails loudly.
relation(name) ==
  IF name.k = "str" /\ name.v \in Registered THEN name.v ELSE NoClass

\* The resolution without its polymorphic branch.
resolveRelationDeclared(a) ==
  IF a.model.isString THEN relation(Str(a.model.name)) ELSE a.model.name

\* static resolveRelation (attr)
resolveRelation(a) ==
  IF a.polymorphic
  THEN IF a.value.k \in {"null", "undef"} THEN NoClass
       ELSE relation(Get(a.value, "type"))
  ELSE IF a.model.isString THEN relation(Str(a.model.name)) ELSE a.model.name

(***************************************************************************)
(* Instantiation: new Model(data)                                          *)
(***************************************************************************)
\* $mergeFields (data): the merged field map and the stored maps afterwards.
\* The copy of the field map is shallow: newFields[key].value = value writes
\* to the descriptor fields() returned.
mergeFields(st, E, data) ==
  LET f == fields(st, E)
      fieldKeys == Range(f.order)
      given == DOMAIN OwnProps(data) \cap fieldKeys
      newAt == [key \in fieldKeys |->
                  IF key \in given
                  THEN [f.at[key] EXCEPT !.value = OwnProps(data)[key]]
                  ELSE f.at[key]]
  IN IF ~Truthy(data)
     THEN [fields |-> f, store |-> st]
     ELSE [fields |-> Fields(f.order, newAt),
           store |-> IF E \in Stored
                     THEN [st EXCEPT ![E] = [key \in fieldKeys |-> newAt[key].value]]
                     ELSE st]

\* The descriptor the loop of $initialize reads at a key: a stored
\* descriptor has the value it holds by then.
FieldNow(st, E, f, key) ==
  IF E \in Stored /\ key \in DOMAIN st[E]
  THEN [f.at[key] EXCEPT !.value = st[E][key]]
  ELSE f.at[key]

\* field.mutator || this.$self().mutators()[key]
MutatorOf(E, key, field) ==
  IF field.mutator # NoMutator THEN field.mutator
  ELSE IF key \in DOMAIN mutators(E) THEN mutators(E)[key]
  ELSE NoMutator

\* The guard without its test of the first element of a list.
IsPlaceholderScalarOnly(value) == IsNumber(value)

\* _.isNumber(field.value) || _.isNumber(field.value[0])
IsPlaceholder(value) == IsNumber(value) \/ IsNumber(Index0(value))

\* No field
NoKey == ""

RECURSIVE Initialize(_, _, _)
RECURSIVE AssignFields(_, _, _, _, _, _)
RECURSIVE NewEach(_, _, _, _, _)

\* field.value.map((v) => new model(v)), from element i on
NewEach(st, model, elems, i, acc) ==
  IF i > Len(elems) THEN [val |-> Arr(acc), store |-> st]
  ELSE The({IF r.val = Err THEN [val |-> Err, store |-> r.store]
             ELSE NewEach(r.store, model, elems, i + 1, Append(acc, r.val)) :
             r \in {Initialize(st, model, elems[i])}})

\* The body of the loop of $initialize for one field: the value assigned to
\* this[key] (Err when it throws), the stored maps afterwards and whether
\* the relation was resolved.
AssignField(st, E, key, field) ==
  LET value == field.value
      done(v, called) == [val |-> v, store |-> st, called |-> called]
  IN IF value = Null THEN done(Null, FALSE)
     ELSE IF field.type = "Attr"
     THEN LET mutator == MutatorOf(E, key, field)
          IN done(IF mutator # NoMutator THEN Apply(mutator, value) ELSE value, FALSE)
     ELSE IF ~IsNumber(value) /\ Index0(value) = Err THEN done(Err, FALSE)
     ELSE IF IsPlaceholder(value) THEN done(Null, FALSE)
     ELSE LET model == resolveRelation(field)
          IN IF model = NoClass THEN done(Err, TRUE)
             ELSE IF ~Truthy(value) THEN done(Null, TRUE)
             ELSE IF field.type \in {"HasOne", "BelongsTo"}
             THEN The({[val |-> r.val, store |-> r.store, called |-> TRUE] :
                         r \in {Initialize(st, model, value)}})
             ELSE IF value.k # "arr" THEN done(Err, TRUE)
             ELSE The({[val |-> r.val, store |-> r.store, called |-> TRUE] :
                         r \in {NewEach(st, model, value.v, 1, <<>>)}})

\* The loop with a null value left unassigned: the early return without
\* this[key] = null.
AssignFieldsSkippingNull(st, E, f, i, props, resolved) ==
  IF i > Len(f.order)
  THEN [val |-> Inst(E, props), store |-> st, resolved |-> resolved, threw |-> NoKey]
  ELSE LET key == f.order[i]
           res(r) == IF r.called THEN resolved \cup {key} ELSE resolved
           set(r) == IF FieldNow(st, E, f, key).value = Null THEN props
                     ELSE Put(props, key, r.val)
       IN The({IF r.val = Err
               THEN [val |-> Err, store |-> r.store, resolved |-> res(r), threw |-> key]
               ELSE AssignFields(r.store, E, f, i + 1, set(r), res(r)) :
               r \in {AssignField(st, E, key, FieldNow(st, E, f, key))}})

\* _.forEach(fields, ...) of $initialize, from the i-th field on
AssignFields(st, E, f, i, props, resolved) ==
  IF i > Len(f.order)
  THEN [val |-> Inst(E, props), store |-> st, resolved |-> resolved, threw |-> NoKey]
  ELSE LET key == f.order[i]
           res(r) == IF r.called THEN resolved \cup {key} ELSE resolved
       IN The({IF r.val = Err
               THEN [val |-> Err, store |-> r.store, resolved |-> res(r), threw |-> key]
               ELSE AssignFields(r.store, E, f, i + 1, Put(props, key, r.val), res(r)) :
               r \in {AssignField(st, E, key, FieldNow(st, E, f, key))}})

\* constructor (data) / $initialize (data): the instance (Err when the
\* constructor throws), the stored maps afterwards, the fields of this
\* instance whose relation was resolved and the field whose assignment threw.
Initialize(st, E, data) ==
  The({AssignFields(m.store, E, m.fields, 1, EmptyMap, {}) :
         m \in {mergeFields(st, E, data)}})

(***************************************************************************)
(* Serialization                                                           *)
(***************************************************************************)
RECURSIVE toJson(_)

\* model.$toJson() on a property value; a value that is no instance has no
\* such method.
CallToJson(p) == IF p.k = "inst" THEN toJson(p) ELSE Err

\* The callback with every falsy value emitted as null.
JsonFieldNulling(a, p) ==
  IF ~Truthy(p) THEN Null
  ELSE IF a.type \in {"HasOne", "BelongsTo"} THEN CallToJson(p)
  ELSE IF a.type = "HasMany"
  THEN IF p.k = "arr" THEN Arr([i \in DOMAIN p.v |-> CallToJson(p.v[i])]) ELSE Err
  ELSE p

\* The callback of _.mapValues in $toJson for one field.
JsonField(a, p) ==
  IF ~Truthy(p) THEN p
  ELSE IF a.type \in {"HasOne", "BelongsTo"} THEN CallToJson(p)
  ELSE IF a.type = "HasMany"
  THEN IF p.k = "arr" THEN Arr([i \in DOMAIN p.v |-> CallToJson(p.v[i])]) ELSE Err
  ELSE p

\* $toJson (): only the types of the fields are read.
toJson(inst) ==
  LET f == Declared(inst.c)
  IN Obj([key \in Range(f.order) |-> JsonField(f.at[key], Get(inst, key))])

(***************************************************************************)
(* Normalization                                                           *)
(***************************************************************************)
\* The entity a schema node of relation a visits a record with: fixed for a
\* plain relation, read from the record's discriminator for a polymorphic one.
SchemaTarget(a, value) ==
  IF a.polymorphic THEN relation(Get(value, "type")) ELSE resolveRelation(a)

\* Merge a flat record into the bucket of E under its primary key value.
AddRecord(ents, E, id, rec) ==
  LET bucket == IF E \in DOMAIN ents THEN ents[E] ELSE EmptyMap
      old == IF id \in DOMAIN bucket THEN bucket[id] ELSE EmptyMap
  IN [x \in DOMAIN ents \cup {E} |->
        IF x = E THEN Put(bucket, id, Spread(rec, old)) ELSE ents[x]]

Passed(value, ents) == [ref |-> value, ents |-> ents, failed |-> FALSE]
Failed(ents) == [ref |-> Err, ents |-> ents, failed |-> TRUE]

RECURSIVE VisitEntity(_, _, _)
RECURSIVE VisitFields(_, _, _, _)
RECURSIVE VisitEach(_, _, _, _, _)

\* A single-entity schema node on a value: a value that is no record (an
\* id, null) is left as it is.
VisitOne(a, value, ents) ==
  IF value.k # "obj" THEN Passed(value, ents)
  ELSE IF SchemaTarget(a, value) = NoClass THEN Failed(ents)
  ELSE VisitEntity(SchemaTarget(a, value), value, ents)

\* A collection schema node on a value: each element of a list is visited.
VisitList(a, value, ents) ==
  IF value.k # "arr" THEN Passed(value, ents)
  ELSE VisitEach(a, value.v, 1, <<>>, ents)

VisitEach(a, elems, i, refs, ents) ==
  IF i > Len(elems) THEN Passed(Arr(refs), ents)
  ELSE The({IF r.failed THEN r
             ELSE VisitEach(a, elems, i + 1, Append(refs, r.ref), r.ents) :
             r \in {VisitOne(a, elems[i], ents)}})

\* The relation fields of a record of E, from the i-th declared field on:
\* each embedded value is replaced by the primary key value(s) it has.
VisitFields(E, i, rec, ents) ==
  LET f == Declared(E)
  IN IF i > Len(f.order) THEN [rec |-> rec, ents |-> ents, failed |-> FALSE]
     ELSE LET key == f.order[i]
              a == f.at[key]
          IN IF ~isRelation(a) \/ key \notin DOMAIN rec
             THEN VisitFields(E, i + 1, rec, ents)
             ELSE The({IF r.failed THEN [rec |-> rec, ents |-> r.ents, failed |-> TRUE]
                        ELSE VisitFields(E, i + 1, [rec EXCEPT ![key] = r.ref], r.ents) :
                        r \in {IF a.type \in {"HasMany", "HasManyBy"}
                                THEN VisitList(a, rec[key], ents)
                                ELSE VisitOne(a, rec[key], ents)}})

\* A record of E: its relations are visited, then the flat record is filed
\* under its primary key value and replaced by that value.
VisitEntity(E, value, ents) ==
  LET id(rec) == IF primaryKey \in DOMAIN rec THEN rec[primaryKey] ELSE Undef
  IN The({IF r.failed THEN Failed(r.ents)
          ELSE Passed(id(r.rec), AddRecord(r.ents, E, id(r.rec), r.rec)) :
          r \in {VisitFields(E, 1, value.v, ents)}})

\* The schema with its two kinds swapped.
schemaSwapped(E, many) == [entity |-> E, many |-> ~many]

\* static schema (many): the entity's schema node, single or collection
schema(E, many) == [entity |-> E, many |-> many]

\* Data.normalize(data, schema): the entities the graph-normalization
\* primitive collects
DataNormalize(data, sch) ==
  IF sch.many THEN VisitList(hasMany(Static(sch.entity), "", FALSE), data, EmptyMap)
  ELSE VisitOne(hasOne(Static(sch.entity), "", FALSE), data, EmptyMap)

\* The callback that attaches nothing.
attachNothing(a, value, newRecord) == newRecord

\* The callback of _.forEach in attachForeignKeys for one field of a record.
attachForeignKey(a, value, newRecord) ==
  IF a.type = "BelongsTo"
  THEN LET key == a.foreignKey
       IN IF key \in DOMAIN newRecord /\ Truthy(newRecord[key]) THEN newRecord
          ELSE Put(newRecord, key, value)
  ELSE newRecord

RECURSIVE AttachRecord(_, _, _, _)

\* _.forEach(record, ...) of attachForeignKeys, over the declared fields the
\* record has (a key that is no field is skipped), from the i-th on.  The
\* order of the keys matters only to two BelongsTo fields with one foreign
\* key, which no entity here declares.
AttachRecord(f, record, i, newRecord) ==
  IF i > Len(f.order) THEN newRecord
  ELSE IF f.order[i] \notin DOMAIN record THEN AttachRecord(f, record, i + 1, newRecord)
  ELSE AttachRecord(f, record, i + 1,
                    attachForeignKey(f.at[f.order[i]], record[f.order[i]], newRecord))

\* static attachForeignKeys (records, model); only the types and foreign
\* keys of the fields are read.
attachForeignKeys(records, model) ==
  [id \in DOMAIN records |-> AttachRecord(Declared(model), records[id], 1, records[id])]

\* static normalize (data): the first pass and the result; it throws when
\* the primitive does or when a bucket's entity is not registered.
normalize(E, data) ==
  LET bad(first) ==
        first.failed \/ \E entity \in DOMAIN first.ents : relation(Str(entity)) = NoClass
  IN The({[first |-> first.ents,
           failed |-> bad(first),
           data |-> IF bad(first) THEN EmptyMap
                    ELSE [entity \in DOMAIN first.ents |->
                            attachForeignKeys(first.ents[entity], relation(Str(entity)))]] :
          first \in {DataNormalize(data, schema(E, data.k = "arr"))}})

(***************************************************************************)
(* Inputs: the raw payloads the operations are called with.                *)
(***************************************************************************)
Ids == 1 .. MaxId
ListsOf(S) == UNION {[1 .. n -> S] : n \in 0 .. MaxLen}

TagRecs ==
  {Obj([id |-> Num(i)]) : i \in Ids}
  \cup {Obj([id |-> Num(i), name |-> Str("ada")]) : i \in Ids}

\* Tags a post embeds
EmbeddedTags == {Obj([id |-> Num(1), name |-> Str("ada")]), Obj([id |-> Num(2)])}

ProfileRecs ==
  {Obj([id |-> Num(1), age |-> Num(n)]) : n \in 0 .. MaxId}
  \cup {Obj([id |-> Num(1)])}

UserLeaf(i) == Obj([id |-> Num(i), name |-> Str("ada")])
PostLeaf(i) == Obj([id |-> Num(i), title |-> Str("hi")])

\* The values a record may carry under a foreign key, falsy ones included.
KeyValues == {Num(n) : n \in 0 .. MaxId} \cup {Str(""), Bool(FALSE), Null}

PostRecs ==
  {PostLeaf(i) : i \in Ids}
  \cup {Obj([id |-> Num(1), title |-> Str("hi"), userId |-> u]) : u \in KeyValues}
  \cup {Obj([id |-> Num(1), title |-> Str("hi"), author |-> UserLeaf(i)]) : i \in Ids}
  \cup {Obj([id |-> Num(1), userId |-> u, author |-> UserLeaf(2)]) : u \in KeyValues}
  \cup {Obj([id |-> Num(1), author |-> x]) : x \in {Null, Num(1), Num(0), Str("x"), Str(""), Arr(<<>>)}}
  \cup {Obj([id |-> Num(1), tags |-> Arr(t)]) : t \in ListsOf(EmbeddedTags)}
  \cup {Obj([id |-> Num(1), tags |-> x]) :
          x \in {Null, Arr(<<Num(1), Num(2)>>), Arr(<<Obj([id |-> Num(1)]), Num(2)>>),
                 Obj([id |-> Num(1)]), Bool(FALSE)}}
  \cup {Obj([id |-> Num(1), title |-> Str("hi"), extra |-> Str("x"), userId |-> Num(1)])}

\* Posts a user embeds: plain ones and one that embeds another user.
EmbeddedPosts ==
  {Obj([id |-> Num(1), title |-> Str("hi"), userId |-> Num(1)]),
   Obj([id |-> Num(1), author |-> UserLeaf(2)]),
   Obj([id |-> Num(2), author |-> UserLeaf(1), tags |-> Arr(<<Obj([id |-> Num(1)])>>)])}

UserRecs ==
  {UserLeaf(i) : i \in Ids}
  \cup {Obj([id |-> Num(1)]), Obj([id |-> Num(1), name |-> Str("")]), Obj([name |-> Str("ada")]),
        Obj([id |-> Num(1), name |-> Str("ada"), role |-> Str("x"), age |-> Num(3)])}
  \cup {Obj([id |-> Num(1), name |-> Str("ada"), posts |-> Arr(t)]) : t \in ListsOf(EmbeddedPosts)}
  \cup {Obj([id |-> Num(1), posts |-> x]) :
          x \in {Null, Arr(<<Num(1)>>), Arr(<<Num(1), PostLeaf(2)>>), Num(3), Str("x")}}
  \cup {Obj([id |-> Num(1), profile |-> x]) :
          x \in ProfileRecs \cup {Null, Num(5), Num(0), Bool(FALSE), Arr(<<Num(1)>>)}}

\* Records with a discriminator, as a polymorphic relation embeds them.
Typed ==
  {Obj([type |-> Str(T), id |-> Num(1)]) : T \in {"Post", "User", "Image", "Nope"}}
  \cup {Obj([type |-> Str("User"), id |-> Num(2), name |-> Str("ada")]),
        Obj([id |-> Num(1)])}

CommentRecs ==
  {Obj([id |-> Num(1)])}
  \cup {Obj([id |-> Num(1), commentable |-> x]) : x \in Typed \cup {Null, Num(3), Arr(<<Num(1)>>)}}
  \cup {Obj([id |-> Num(1), images |-> x]) :
          x \in {Arr(t) : t \in ListsOf({Obj([type |-> Str("User"), id |-> Num(1)]),
                                          Obj([type |-> Str("Tag"), id |-> Num(2)])})}
                \cup {Null, Num(3), Arr(<<Num(1)>>)}}
  \cup {Obj([id |-> Num(1), ghost |-> x]) : x \in {Null, Num(5), Arr(<<Num(1)>>), Obj([id |-> Num(1)])}}
  \cup {Obj([id |-> Num(1), draft |-> x]) : x \in {Null, Num(5), Obj([id |-> Num(1)])}}

ImageRecs ==
  {Obj([id |-> Num(i)]) : i \in Ids} \cup {Obj([id |-> Num(1), type |-> Str("Image")])}

DraftRecs == {Obj([id |-> Num(i)]) : i \in Ids}

Payloads(E) ==
  CASE E = "User" -> UserRecs
    [] E = "Post" -> PostRecs
    [] E = "Profile" -> ProfileRecs
    [] E = "Tag" -> TagRecs
    [] E = "Comment" -> CommentRecs
    [] E = "Image" -> ImageRecs
    [] OTHER -> DraftRecs

\* new E() without data, or with a payload
Arguments(E) == Payloads(E) \cup {Undef}

\* Lists of records handed to normalize
Batches(E) ==
  CASE E = "User" -> {Arr(<<UserLeaf(1), Obj([id |-> Num(2), posts |-> Arr(<<PostLeaf(1)>>)])>>)}
    [] E = "Post" -> {Arr(t) : t \in ListsOf({PostLeaf(1),
                                               Obj([id |-> Num(2), author |-> UserLeaf(1)])})}
    [] E = "Tag" -> {Arr(t) : t \in ListsOf(EmbeddedTags)}
    [] OTHER -> {Arr(<<>>)}

\* The descriptors and values resolveRelation is called with
Targets == {Static(C) : C \in Classes} \cup {Named(C) : C \in Classes \cup {"Ghost"}}
Relations ==
  {[hasOne(m, "fk", p) EXCEPT !.value = x] :
     m \in Targets, p \in BOOLEAN, x \in Typed \cup {Null, Num(1)}}

(***************************************************************************)
(* The state machine: the stored field maps and the last call made.        *)
(***************************************************************************)
Init ==
  /\ store = [E \in Stored |-> DeclaredValues(E)]
  /\ call = [op |-> "init"]

\* new E(data)
Instantiate(E, data) ==
  \E r \in {Initialize(store, E, data)} :
     /\ call' = [op |-> "instantiate", ent |-> E, arg |-> data, pre |-> store,
                 out |-> r.val, resolved |-> r.resolved, threw |-> r.threw]
     /\ store' = r.store

\* instance.$toJson() on the instance the last call built
ToJson ==
  /\ call.op = "instantiate"
  /\ call.out # Err
  /\ call' = [op |-> "toJson", ent |-> call.ent, arg |-> call.arg,
              inst |-> call.out, json |-> toJson(call.out)]
  /\ UNCHANGED store

\* new E(json) on the data the last call serialized
Reinstantiate ==
  /\ call.op = "toJson"
  /\ \E r \in {Initialize(store, call.ent, call.json)} :
        /\ call' = [op |-> "roundtrip", ent |-> call.ent, arg |-> call.arg,
                    inst |-> call.inst, json |-> call.json, again |-> r.val]
        /\ store' = r.store

\* E.normalize(data)
Normalize(E, data) ==
  \E r \in {normalize(E, data)} :
     /\ call' = [op |-> "normalize", ent |-> E, arg |-> data, first |-> r.first,
                 failed |-> r.failed, out |-> r.data]
     /\ UNCHANGED store

\* E.resolveRelation(attr)
Resolve(a) ==
  /\ call' = [op |-> "resolve", attr |-> a, out |-> resolveRelation(a)]
  /\ UNCHANGED store

\* Instantiation and serialization: the calls that read or write the
\* stored field maps.
NextInstantiate ==
  \/ \E E \in Classes : \E data \in Arguments(E) : Instantiate(E, data)
  \/ ToJson
  \/ Reinstantiate

\* Normalization
NextNormalize ==
  \E E \in Registered : \E data \in Payloads(E) \cup Batches(E) : Normalize(E, data)

\* Relation resolution
NextResolve == \E a \in Relations : Resolve(a)

Next == NextInstantiate \/ NextNormalize \/ NextResolve

Spec == Init /\ [][Next]_vars
SpecInstantiate == Init /\ [][NextInstantiate]_vars
SpecNormalize == Init /\ [][NextNormalize]_vars
SpecResolve == Init /\ [][NextResolve]_vars

(***************************************************************************)
(* Properties                                                              *)
(***************************************************************************)
FieldKeys(E) == Range(Declared(E).order)

\* The value $mergeFields leaves at a field of the instance a call builds
\* from data: the one data gives, else the one the descriptor holds.
MergedValue(st, E, data, key) ==
  IF Truthy(data) /\ key \in DOMAIN OwnProps(data) THEN OwnProps(data)[key]
  ELSE fields(st, E).at[key].value

RECURSIVE InstancesIn(_)
\* Every live instance inside a value, the value included.
InstancesIn(x) ==
  CASE x.k = "inst" -> {x} \cup UNION {InstancesIn(x.v[key]) : key \in DOMAIN x.v}
    [] x.k = "obj" -> UNION {InstancesIn(x.v[key]) : key \in DOMAIN x.v}
    [] x.k = "arr" -> UNION {InstancesIn(x.v[i]) : i \in DOMAIN x.v}
    [] OTHER -> {}

\* C1: instantiation never changes the entity definition: whatever calls
\* were made, every descriptor E.fields() returns holds its declared default.
C1_DefinitionNeverMutated ==
  \A E \in Classes :
    [key \in FieldKeys(E) |-> fields(store, E).at[key].value] = DeclaredValues(E)

\* C3: an instance a constructor returns has exactly the declared fields of
\* its class as properties, whatever keys the payload had; so has every
\* instance nested in it.
C3_FieldSetExact ==
  call.op = "instantiate" /\ call.out # Err =>
    \A i \in InstancesIn(call.out) : DOMAIN i.v = FieldKeys(i.c)

\* A payload with a key that is no field was instantiated.
C3_Witness ==
  /\ call.op = "instantiate"
  /\ call.out # Err
  /\ DOMAIN OwnProps(call.arg) \ FieldKeys(call.ent) # {}
  /\ DOMAIN OwnProps(call.arg) \cap FieldKeys(call.ent) # {}

\* A bare id, or a list of ids, in place of embedded data
Degenerate(value) ==
  \/ value = Null
  \/ IsNumber(value)
  \/ value.k = "arr" /\ Len(value.v) > 0 /\ IsNumber(value.v[1])

\* C10: a relation field whose merged value is null, a number or a list that
\* starts with a number is assigned null without resolving its target and
\* without throwing, resolvable target or not; an attribute with a numeric
\* value keeps its (mutated) value.
C10_GuardsBeforeRelations ==
  call.op = "instantiate" =>
    \A key \in FieldKeys(call.ent) :
      LET a == Declared(call.ent).at[key]
          value == MergedValue(call.pre, call.ent, call.arg, key)
      IN /\ isRelation(a) /\ Degenerate(value) =>
              /\ key \notin call.resolved
              /\ call.threw # key
              /\ call.out # Err => call.out.v[key] = Null
         /\ ~isRelation(a) /\ IsNumber(value) /\ call.out # Err =>
              call.out.v[key] = Apply(MutatorOf(call.ent, key, a), value)

\* An id stood in a relation whose target no connection registers, and a
\* list of ids in a polymorphic relation.
C10_Witness ==
  /\ call.op = "instantiate"
  /\ call.ent = "Comment"
  /\ call.out # Err
  /\ \/ Get(call.arg, "ghost") = Num(5) /\ call.out.v["ghost"] = Null
     \/ Get(call.arg, "images") = Arr(<<Num(1)>>) /\ call.out.v["images"] = Null

\* C6: a polymorphic relation resolves to the class registered under the
\* discriminator its value carries, whatever target it declares; a plain
\* relation resolves to the registry entry of a string target and to a
\* static target itself, whatever its value.
C6_Resolution ==
  call.op = "resolve" =>
    LET a == call.attr
        N == Get(a.value, "type")
    IN /\ a.polymorphic /\ N.k = "str" /\ N.v \in Registered => call.out = N.v
       /\ ~a.polymorphic /\ a.model.isString /\ a.model.name \in Registered =>
            call.out = a.model.name
       /\ ~a.polymorphic /\ ~a.model.isString => call.out = a.model.name

\* A polymorphic relation that declares another target than its value names.
C6_Witness ==
  /\ call.op = "resolve"
  /\ call.attr.polymorphic
  /\ call.attr.model = Static("Draft")
  /\ Get(call.attr.value, "type") = Str("Post")
  /\ call.out = "Post"

\* The records of a bucket, with the bucket's entity
RecordsOf(data) == UNION {{<<E, id>> : id \in DOMAIN data[E]} : E \in DOMAIN data}

BelongsToKeys(E) == {key \in FieldKeys(E) : Declared(E).at[key].type = "BelongsTo"}

RECURSIVE Embedded(_, _)
RECURSIVE EmbeddedUnder(_, _)

\* The records (entity and primary key value) a record of E embeds in its
\* relation fields, at any depth.
EmbeddedUnder(a, value) ==
  CASE value.k = "arr" /\ a.type \in {"HasMany", "HasManyBy"} ->
         UNION {EmbeddedUnder([a EXCEPT !.type = "HasOne"], value.v[i]) : i \in DOMAIN value.v}
    [] value.k = "obj" /\ a.type \in {"HasOne", "BelongsTo"} /\ SchemaTarget(a, value) # NoClass ->
         {<<SchemaTarget(a, value), Get(value, primaryKey)>>}
           \cup Embedded(SchemaTarget(a, value), value)
    [] OTHER -> {}

Embedded(E, rec) ==
  UNION {EmbeddedUnder(Declared(E).at[key], rec.v[key]) :
           key \in {x \in FieldKeys(E) \cap DOMAIN rec.v : isRelation(Declared(E).at[x])}}

\* C5 as stated: normalize of one record of E, whatever it embeds, has a
\* bucket for E with exactly one record, under the record's primary key.
C5_ExactlyOneRecord ==
  call.op = "normalize" /\ ~call.failed /\ call.arg.k = "obj" =>
    /\ call.ent \in DOMAIN call.out
    /\ DOMAIN call.out[call.ent] = {Get(call.arg, primaryKey)}

\* C5, amended: normalize of one record of E has a bucket for E, whose
\* records are the one under the record's primary key and one under the
\* primary key of every record of E it embeds.
C5_RootAndEmbedded ==
  call.op = "normalize" /\ ~call.failed /\ call.arg.k = "obj" =>
    /\ call.ent \in DOMAIN call.out
    /\ DOMAIN call.out[call.ent] =
         {Get(call.arg, primaryKey)}
           \cup {p[2] : p \in {q \in Embedded(call.ent, call.arg) : q[1] = call.ent}}

\* A user embedded a post that embeds another user: two records of User.
C5_Witness ==
  /\ call.op = "normalize"
  /\ ~call.failed
  /\ call.ent = "User"
  /\ call.arg.k = "obj"
  /\ DOMAIN call.out["User"] = {Num(1), Num(2)}

\* C9: the foreign-key pass of normalize keeps the buckets, the keys of each
\* bucket and every value a record has, a value under a foreign key
\* included (0, "" and false too); it only sets a foreign key that is
\* missing (or null), to the value of its relation field.
C9_OnlyAddsMissingKeys ==
  call.op = "normalize" /\ ~call.failed =>
    /\ DOMAIN call.out = DOMAIN call.first
    /\ \A E \in DOMAIN call.first :
         /\ DOMAIN call.out[E] = DOMAIN call.first[E]
         /\ \A id \in DOMAIN call.first[E] :
              LET before == call.first[E][id]
                  after == call.out[E][id]
              IN /\ \A key \in DOMAIN before :
                      /\ key \in DOMAIN after
                      /\ \/ after[key] = before[key]
                         \/ /\ before[key] = Null
                            /\ \E r \in BelongsToKeys(E) \cap DOMAIN before :
                                 /\ Declared(E).at[r].foreignKey = key
                                 /\ after[key] = before[r]
                 /\ \A key \in DOMAIN after \ DOMAIN before :
                      \E r \in BelongsToKeys(E) \cap DOMAIN before :
                        /\ Declared(E).at[r].foreignKey = key
                        /\ after[key] = before[r]

ManyKeys(E) == {key \in FieldKeys(E) : Declared(E).at[key].type \in {"HasMany", "HasManyBy"}}

\* A list of embedded records
IsRecordList(value) ==
  value.k = "arr" /\ Len(value.v) > 0 /\ \A i \in DOMAIN value.v : value.v[i].k = "obj"

\* The claim of C7 at one HasMany or HasManyBy field of the last call.  An
\* instance is compared with the one its record alone gives where no class
\* with a stored field map is involved (see C1).
ManyInstantiated(key) ==
  LET a == Declared(call.ent).at[key]
      value == MergedValue(call.pre, call.ent, call.arg, key)
  IN IsRecordList(value) =>
       /\ call.threw # key
       /\ call.out # Err =>
            LET got == call.out.v[key]
            IN /\ got.k = "arr"
               /\ Len(got.v) = Len(value.v)
               /\ \A i \in DOMAIN value.v :
                    /\ got.v[i].k = "inst"
                    /\ got.v[i].c = SchemaTarget(a, value.v[i])
                    /\ (\A x \in InstancesIn(got.v[i]) : x.c \notin Stored) =>
                         got.v[i] = Initialize(call.pre, got.v[i].c, value.v[i]).val

\* C7: a HasMany or HasManyBy field, polymorphic or not, whose merged value
\* is a list of n embedded records is assigned the n instances of them, in
\* order, each of the resolved target; a polymorphic field takes the target
\* of each record from that record's discriminator.
C7_ManyInstantiated ==
  call.op = "instantiate" => \A key \in ManyKeys(call.ent) : ManyInstantiated(key)

\* C7 without the polymorphic fields
C7_PlainManyInstantiated ==
  call.op = "instantiate" =>
    \A key \in ManyKeys(call.ent) :
      ~Declared(call.ent).at[key].polymorphic => ManyInstantiated(key)

\* C8: what $toJson returns holds no live instance at any depth.
C8_JsonIsPlain ==
  call.op = "toJson" => InstancesIn(call.json) = {}

\* C8 without the HasManyBy fields: a class that has none serializes to
\* plain data.
C8_JsonIsPlainButManyBy ==
  call.op = "toJson" =>
    \A i \in InstancesIn(call.json) :
      \E o \in InstancesIn(call.inst) : \E key \in FieldKeys(o.c) :
        /\ Declared(o.c).at[key].type = "HasManyBy"
        /\ i \in InstancesIn(o.v[key])

\* The mutators the attributes of a class are assigned through
MutatorsOf(E) ==
  {MutatorOf(E, key, Declared(E).at[key]) :
     key \in {x \in FieldKeys(E) : ~isRelation(Declared(E).at[x])}}

MutatorsIn(x) == UNION {MutatorsOf(i.c) : i \in InstancesIn(x)}

\* Every instance a polymorphic relation holds carries, among its own
\* fields, the discriminator that names its class.
DiscriminatorsKept(x) ==
  \A i \in InstancesIn(x) : \A key \in FieldKeys(i.c) :
    Declared(i.c).at[key].polymorphic /\ i.v[key].k = "inst" =>
      relation(Get(i.v[key], "type")) = i.v[key].c

\* C4 as stated: when no mutator of the instantiated graph is
\* non-invertible, instantiating what $toJson gives yields an equal instance.
C4_RoundTripUnlessNonInvertible ==
  call.op = "roundtrip" /\ (\A m \in MutatorsIn(call.inst) : Invertible(m)) =>
    call.again = call.inst

\* C4, amended: when every mutator of the instantiated graph is idempotent
\* and every instance a polymorphic relation holds keeps its discriminator
\* in a field, instantiating what $toJson gives yields an equal instance.
C4_RoundTripWhenIdempotent ==
  call.op = "roundtrip"
    /\ (\A m \in MutatorsIn(call.inst) : Idempotent(m))
    /\ DiscriminatorsKept(call.inst) =>
    call.again = call.inst

\* A post with a mutated title, a falsy attribute and HasManyBy instances
\* went through the round trip.
C4_Witness ==
  /\ call.op = "roundtrip"
  /\ call.ent = "User"
  /\ call.inst.v["name"] = Str("ADA")
  /\ call.inst.v["posts"].k = "arr"
  /\ \E i \in DOMAIN call.inst.v["posts"].v :
       /\ call.inst.v["posts"].v[i].v["tags"].k = "arr"
       /\ call.inst.v["posts"].v[i].v["author"].k = "inst"
  /\ call.again = call.inst

====
